---- MODULE Spec2Model ----
(***************************************************************************)
(* The SELECT parser of sql_parser/parser.py as a state machine.           *)
(*                                                                         *)
(* Spec models the statement level: the left-recursive productions         *)
(* `select : select <CLAUSE> <operand>` are reduced one clause at a time,  *)
(* left to right, each reduction running its handler (the clause-order     *)
(* check ensure_select_keyword_order, the operand type check and the       *)
(* assignment to the accumulating Select).                                 *)
(*                                                                         *)
(* ExprSpec models the expression level: the productions of `expr` are     *)
(* shifted and reduced over a token sequence, every shift/reduce choice    *)
(* being settled by the precedence table of SQLParser.                     *)
(***************************************************************************)
EXTENDS Integers, Sequences, FiniteSets

VARIABLES
    clauses,    \* the clause keywords of the statement, in source order
    pos,        \* index in `clauses` of the next clause to reduce
    select,     \* the accumulating Select (p.select)
    operand,    \* the operand handed to the handler that ran last (p.expr, p.constant, ...)
    pc,         \* "parsing", "done" (a Select was returned) or "error" (a ParsingException propagated)
    err,        \* the ParsingException raised, or NoErr
    result,     \* what parse() returned, or None
    tokens,     \* the tokens of the expression being parsed
    tpos,       \* index in `tokens` of the lookahead token
    stack,      \* the parser's symbol stack
    tree,       \* the AST the expression was reduced to, or None
    input,      \* the characters of the text being tokenized
    lexpos      \* index in `input` of the next character to tokenize

stmtVars == <<clauses, pos, select, operand, result>>

exprVars == <<tokens, tpos, stack, tree>>

lexVars == <<input, lexpos>>

vars == <<clauses, pos, select, operand, pc, err, result, tokens, tpos, stack, tree,
          input, lexpos>>

----------------------------------------------------------------------------
(* Bounds of the model *)

\* longest clause sequence drawn freely (repetitions allowed)
MaxClauses == 4
\* longest GROUP BY expression list
MaxGroupBy == 2
\* most operands of a parsed expression
MaxOperands == 3
\* most operands of a parsed chain of comparisons and ANDs
MaxCompared == 4

----------------------------------------------------------------------------
(* AST nodes *)

None == [kind |-> "None"]

Identifier(value) == [kind |-> "Identifier", value |-> value, parentheses |-> FALSE]

\* Constant(value=int(..)) / float(..) / str(..): the Python type of the value is kept
Constant(type, value) ==
    [kind |-> "Constant", type |-> type, value |-> value, parentheses |-> FALSE]

BinaryOperation(op, a, b) ==
    [kind |-> "BinaryOperation", op |-> op, args |-> <<a, b>>, parentheses |-> FALSE]

UnaryOperation(op, a) ==
    [kind |-> "UnaryOperation", op |-> op, args |-> <<a>>, parentheses |-> FALSE]

Function(op, args) ==
    [kind |-> "Function", op |-> op, args |-> args, parentheses |-> FALSE]

\* the flag is not set
Parenthesized_flagNotSet(node) == node

\* expr : LPAREN expr RPAREN
Parenthesized(node) == [node EXCEPT !.parentheses = TRUE]

\* a Python list
List(items) == [kind |-> "list", items |-> items]

OrderBy(field, direction) == [kind |-> "OrderBy", field |-> field, direction |-> direction]

Join(left, right, join_type, condition, implicit) ==
    [kind |-> "Join", left |-> left, right |-> right, join_type |-> join_type,
     condition |-> condition, implicit |-> implicit]

\* Select(targets=targets): every optional clause unset
NewSelect ==
    [from_table |-> None, where |-> None, group_by |-> None, having |-> None,
     order_by |-> None, limit |-> None, offset |-> None]

----------------------------------------------------------------------------
(* Class tests of the handlers *)

\* truth value of a Select attribute (`if op_to_attr[operation]`): None is
\* false; an AST node is a plain object and a clause list is never empty, so
\* both are true whatever they hold (Constant(0) included)
Truthy(attr) == attr # None

\* isinstance(node, Operation)
IsOperation(node) == node.kind \in {"BinaryOperation", "UnaryOperation"}

\* isinstance(node, Identifier)
IsIdentifier(node) == node.kind = "Identifier"

\* isinstance(constant.value, (int, float))
IsInt_orFloat(constant) == constant.type \in {"int", "float"}

\* isinstance(constant.value, int)
IsInt(constant) == constant.type = "int"

----------------------------------------------------------------------------
(* ensure_select_keyword_order *)

\* LIMIT and OFFSET listed the other way round
precedence_offsetBeforeLimit ==
    <<"FROM", "WHERE", "GROUP BY", "HAVING", "ORDER BY", "OFFSET", "LIMIT">>

precedence == <<"FROM", "WHERE", "GROUP BY", "HAVING", "ORDER BY", "LIMIT", "OFFSET">>

Clauses == {precedence[i] : i \in 1..Len(precedence)}

\* the ORDER BY entry is missing
requirements_orderByFree(operation) ==
    CASE operation = "WHERE" -> <<"FROM">>
      [] operation = "GROUP BY" -> <<"FROM">>
      [] operation = "HAVING" -> <<"GROUP BY">>
      [] OTHER -> <<>>

\* LIMIT has an entry as well, naming FROM
requirements_limitNeedsFrom(operation) ==
    CASE operation = "WHERE" -> <<"FROM">>
      [] operation = "GROUP BY" -> <<"FROM">>
      [] operation = "ORDER BY" -> <<"FROM">>
      [] operation = "HAVING" -> <<"GROUP BY">>
      [] operation = "LIMIT" -> <<"FROM">>
      [] OTHER -> <<>>

\* the HAVING entry names FROM instead of GROUP BY
requirements_havingNeedsFrom(operation) ==
    CASE operation = "WHERE" -> <<"FROM">>
      [] operation = "GROUP BY" -> <<"FROM">>
      [] operation = "ORDER BY" -> <<"FROM">>
      [] operation = "HAVING" -> <<"FROM">>
      [] OTHER -> <<>>

\* requirements.get(operation, [])
requirements(operation) ==
    CASE operation = "WHERE" -> <<"FROM">>
      [] operation = "GROUP BY" -> <<"FROM">>
      [] operation = "ORDER BY" -> <<"FROM">>
      [] operation = "HAVING" -> <<"GROUP BY">>
      [] OTHER -> <<>>

op_to_attr(sel, operation) ==
    CASE operation = "FROM" -> sel.from_table
      [] operation = "WHERE" -> sel.where
      [] operation = "GROUP BY" -> sel.group_by
      [] operation = "HAVING" -> sel.having
      [] operation = "ORDER BY" -> sel.order_by
      [] operation = "LIMIT" -> sel.limit
      [] operation = "OFFSET" -> sel.offset

\* precedence.index(operation), 1-based
index(operation) == CHOOSE i \in 1..Len(precedence) : precedence[i] = operation

Min(S) == CHOOSE m \in S : \A n \in S : m <= n

NoErr == [text |-> "", clause |-> "", arg |-> "", got |-> None]

\* ParsingException(message): the message is kept as its fixed text and the
\* values interpolated into it
ParsingException(text, clause, arg, got) ==
    [text |-> text, clause |-> clause, arg |-> arg, got |-> got]

\* the scan for a later clause runs before the loop over the requirements
ensure_select_keyword_order_scanBeforeRequires(sel, operation) ==
    LET op_requires == requirements(operation)
        unmet == {i \in 1..Len(op_requires) : ~Truthy(op_to_attr(sel, op_requires[i]))}
        op_precedence_pos == index(operation)
        found == {i \in op_precedence_pos..Len(precedence) :
                     Truthy(op_to_attr(sel, precedence[i]))}
    IN  IF Truthy(op_to_attr(sel, operation))
        THEN ParsingException("Duplicate", operation, operation, None)
        ELSE IF found # {}
        THEN ParsingException("must go after", operation, precedence[Min(found)], None)
        ELSE IF unmet # {}
        THEN ParsingException("requires", operation, op_requires[Min(unmet)], None)
        ELSE NoErr

\* the scan runs over precedence[:op_precedence_pos], the clauses before the operation
ensure_select_keyword_order_scansEarlier(sel, operation) ==
    LET op_requires == requirements(operation)
        unmet == {i \in 1..Len(op_requires) : ~Truthy(op_to_attr(sel, op_requires[i]))}
        op_precedence_pos == index(operation)
        found == {i \in 1..(op_precedence_pos - 1) :
                     Truthy(op_to_attr(sel, precedence[i]))}
    IN  IF Truthy(op_to_attr(sel, operation))
        THEN ParsingException("Duplicate", operation, operation, None)
        ELSE IF unmet # {}
        THEN ParsingException("requires", operation, op_requires[Min(unmet)], None)
        ELSE IF found # {}
        THEN ParsingException("must go after", operation, precedence[Min(found)], None)
        ELSE NoErr

\* the duplicate check is missing: the scan, which starts at the operation, finds it
ensure_select_keyword_order_noDuplicateCheck(sel, operation) ==
    LET op_requires == requirements(operation)
        unmet == {i \in 1..Len(op_requires) : ~Truthy(op_to_attr(sel, op_requires[i]))}
        op_precedence_pos == index(operation)
        found == {i \in op_precedence_pos..Len(precedence) :
                     Truthy(op_to_attr(sel, precedence[i]))}
    IN  IF unmet # {}
        THEN ParsingException("requires", operation, op_requires[Min(unmet)], None)
        ELSE IF found # {}
        THEN ParsingException("must go after", operation, precedence[Min(found)], None)
        ELSE NoErr

\* the exception ensure_select_keyword_order raises, or NoErr when it returns
ensure_select_keyword_order(sel, operation) ==
    LET op_requires == requirements(operation)
        unmet == {i \in 1..Len(op_requires) : ~Truthy(op_to_attr(sel, op_requires[i]))}
        op_precedence_pos == index(operation)
        found == {i \in op_precedence_pos..Len(precedence) :
                     Truthy(op_to_attr(sel, precedence[i]))}
    IN  IF Truthy(op_to_attr(sel, operation))
        THEN ParsingException("Duplicate", operation, operation, None)
        ELSE IF unmet # {}
        THEN ParsingException("requires", operation, op_requires[Min(unmet)], None)
        ELSE IF found # {}
        THEN ParsingException("must go after", operation, precedence[Min(found)], None)
        ELSE NoErr

----------------------------------------------------------------------------
(* Operands the grammar can hand to a clause handler *)

\* expr: one AST of each production of `expr`, bare and parenthesized
BareExprs ==
    { Identifier("column"),
      Constant("int", "1"),
      BinaryOperation("!=", Identifier("column"), Constant("int", "1")),
      UnaryOperation("NOT", Identifier("column")),
      Function("sum", <<Identifier("column")>>) }

Exprs == BareExprs \cup {Parenthesized(e) : e \in BareExprs}

\* constant: INTEGER | FLOAT | STRING
Constants ==
    { Constant("int", "0"), Constant("int", "5"),
      Constant("float", "3.0"), Constant("str", "string") }

\* expr_list: [expr] or an enumeration of two or more
ExprLists ==
    {List(s) : s \in UNION {[1..n -> BareExprs \ {UnaryOperation("NOT", Identifier("column"))}] :
                                n \in 1..MaxGroupBy}}

\* ordering_terms
OrderingTerms ==
    { List(<<OrderBy(Identifier("column"), "ASC")>>),
      List(<<OrderBy(Identifier("column"), "default"), OrderBy(Identifier("c2"), "DESC")>>) }

\* from_table
FromTables ==
    { Identifier("table"),
      Join(Identifier("t1"), Identifier("t2"), "INNER JOIN", None, TRUE) }

----------------------------------------------------------------------------
(* The handlers of `select`, one action each *)

\* the production `select <CLAUSE> ...` is being reduced for the next clause
Reducing(operation) ==
    /\ pc = "parsing"
    /\ pos <= Len(clauses)
    /\ clauses[pos] = operation

\* the exception is caught around parse() and the Select built so far is returned
Raise_returnsPartial(e, arg) ==
    /\ pc' = "error"
    /\ err' = e
    /\ operand' = arg
    /\ result' = select
    /\ UNCHANGED <<clauses, pos, select>>
    /\ UNCHANGED exprVars
    /\ UNCHANGED lexVars

\* raise ParsingException(...): the exception leaves parse(), nothing is returned
Raise(e, arg) ==
    /\ pc' = "error"
    /\ err' = e
    /\ operand' = arg
    /\ UNCHANGED <<clauses, pos, select, result>>
    /\ UNCHANGED exprVars
    /\ UNCHANGED lexVars

\* return select
Return(sel, arg) ==
    /\ select' = sel
    /\ operand' = arg
    /\ pos' = pos + 1
    /\ UNCHANGED <<clauses, pc, err, result>>
    /\ UNCHANGED exprVars
    /\ UNCHANGED lexVars

\* @_('select OFFSET constant')
select_OFFSET ==
    /\ Reducing("OFFSET")
    /\ \E constant \in Constants :
        LET e == ensure_select_keyword_order(select, "OFFSET") IN
        IF e # NoErr THEN Raise(e, constant)
        ELSE IF ~IsInt(constant)
        THEN Raise(ParsingException("must be an integer value", "OFFSET", "", constant), constant)
        ELSE Return([select EXCEPT !.offset = constant], constant)

\* @_('select LIMIT constant')
select_LIMIT ==
    /\ Reducing("LIMIT")
    /\ \E constant \in Constants :
        LET e == ensure_select_keyword_order(select, "LIMIT") IN
        IF e # NoErr THEN Raise(e, constant)
        ELSE IF ~IsInt(constant)
        THEN Raise(ParsingException("must be an integer value", "LIMIT", "", constant), constant)
        ELSE Return([select EXCEPT !.limit = constant], constant)

\* @_('select ORDER_BY ordering_terms')
select_ORDER_BY ==
    /\ Reducing("ORDER BY")
    /\ \E ordering_terms \in OrderingTerms :
        LET e == ensure_select_keyword_order(select, "ORDER BY") IN
        IF e # NoErr THEN Raise(e, ordering_terms)
        ELSE Return([select EXCEPT !.order_by = ordering_terms], ordering_terms)

\* the HAVING handler copied from the WHERE handler with its message unchanged
select_HAVING_saysWhere ==
    /\ Reducing("HAVING")
    /\ \E having \in Exprs :
        LET e == ensure_select_keyword_order(select, "HAVING") IN
        IF e # NoErr THEN Raise(e, having)
        ELSE IF ~IsOperation(having)
        THEN Raise(ParsingException("must contain an operation that evaluates to a boolean",
                                    "WHERE", "", having), having)
        ELSE Return([select EXCEPT !.having = having], having)

\* @_('select HAVING expr')
select_HAVING ==
    /\ Reducing("HAVING")
    /\ \E having \in Exprs :
        LET e == ensure_select_keyword_order(select, "HAVING") IN
        IF e # NoErr THEN Raise(e, having)
        ELSE IF ~IsOperation(having)
        THEN Raise(ParsingException("must contain an operation that evaluates to a boolean",
                                    "HAVING", "", having), having)
        ELSE Return([select EXCEPT !.having = having], having)

\* any(...) in place of all(...)
select_GROUP_BY_any ==
    /\ Reducing("GROUP BY")
    /\ \E group_by \in ExprLists :
        LET e == ensure_select_keyword_order(select, "GROUP BY") IN
        IF e # NoErr THEN Raise(e, group_by)
        ELSE IF ~(\E i \in 1..Len(group_by.items) : IsIdentifier(group_by.items[i]))
        THEN Raise(ParsingException("must contain a list identifiers", "GROUP BY", "", group_by),
                   group_by)
        ELSE Return([select EXCEPT !.group_by = group_by], group_by)

\* @_('select GROUP_BY expr_list')
select_GROUP_BY ==
    /\ Reducing("GROUP BY")
    /\ \E group_by \in ExprLists :
        LET e == ensure_select_keyword_order(select, "GROUP BY") IN
        IF e # NoErr THEN Raise(e, group_by)
        ELSE IF ~(\A i \in 1..Len(group_by.items) : IsIdentifier(group_by.items[i]))
        THEN Raise(ParsingException("must contain a list identifiers", "GROUP BY", "", group_by),
                   group_by)
        ELSE Return([select EXCEPT !.group_by = group_by], group_by)

\* the isinstance check of the WHERE handler is missing
select_WHERE_unchecked ==
    /\ Reducing("WHERE")
    /\ \E where_expr \in Exprs :
        LET e == ensure_select_keyword_order(select, "WHERE") IN
        IF e # NoErr THEN Raise(e, where_expr)
        ELSE Return([select EXCEPT !.where = where_expr], where_expr)

\* @_('select WHERE expr')
select_WHERE ==
    /\ Reducing("WHERE")
    /\ \E where_expr \in Exprs :
        LET e == ensure_select_keyword_order(select, "WHERE") IN
        IF e # NoErr THEN Raise(e, where_expr)
        ELSE IF ~IsOperation(where_expr)
        THEN Raise(ParsingException("must contain an operation that evaluates to a boolean",
                                    "WHERE", "", where_expr), where_expr)
        ELSE Return([select EXCEPT !.where = where_expr], where_expr)

\* @_('select FROM from_table')
select_FROM ==
    /\ Reducing("FROM")
    /\ \E from_table \in FromTables :
        LET e == ensure_select_keyword_order(select, "FROM") IN
        IF e # NoErr THEN Raise(e, from_table)
        ELSE Return([select EXCEPT !.from_table = from_table], from_table)

\* end of input: the statement is accepted and parse() returns the Select
Accept ==
    /\ pc = "parsing"
    /\ pos > Len(clauses)
    /\ pc' = "done"
    /\ result' = select
    /\ UNCHANGED <<clauses, pos, select, operand, err>>
    /\ UNCHANGED exprVars
    /\ UNCHANGED lexVars

----------------------------------------------------------------------------
(* Statements *)

RECURSIVE Orderings(_)
Orderings(S) ==
    IF S = {} THEN {<<>>}
    ELSE UNION {{<<x>> \o p : p \in Orderings(S \ {x})} : x \in S}

\* the clauses of S, each once, in the order of the grammar's clause list
Ascending(S) == SelectSeq(precedence, LAMBDA c : c \in S)

\* the clause sequences parsed: every sequence of at most MaxClauses clauses,
\* every permutation of the seven clauses, and every selection of clauses
\* written in the usual order
Statements ==
    UNION {[1..n -> Clauses] : n \in 0..MaxClauses}
        \cup Orderings(Clauses)
        \cup {Ascending(S) : S \in SUBSET Clauses}

\* @_('SELECT result_columns'): Select(targets=targets)
Init ==
    /\ clauses \in Statements
    /\ pos = 1
    /\ select = NewSelect
    /\ operand = None
    /\ pc = "parsing"
    /\ err = NoErr
    /\ result = None
    /\ input = <<>>
    /\ lexpos = 1
    /\ tokens = <<>>
    /\ tpos = 1
    /\ stack = <<>>
    /\ tree = None

Next ==
    \/ select_OFFSET
    \/ select_LIMIT
    \/ select_ORDER_BY
    \/ select_HAVING
    \/ select_GROUP_BY
    \/ select_WHERE
    \/ select_FROM
    \/ Accept

Spec == Init /\ [][Next]_vars

----------------------------------------------------------------------------
(* Expression parsing: the precedence table *)

ComparisonTokens == {"LESS", "LEQ", "GREATER", "GEQ", "EQUALS", "NEQUALS"}

\* ('left', STAR, DIVIDE) listed before ('left', PLUS, MINUS)
SQLParser_precedence_starBelowPlus ==
    << [assoc |-> "nonassoc", tokens |-> ComparisonTokens],
       [assoc |-> "left", tokens |-> {"STAR", "DIVIDE"}],
       [assoc |-> "left", tokens |-> {"PLUS", "MINUS"}],
       [assoc |-> "right", tokens |-> {"UMINUS", "UNOT"}] >>

\* the comparison row declared 'left'
SQLParser_precedence_comparisonsLeft ==
    << [assoc |-> "left", tokens |-> ComparisonTokens],
       [assoc |-> "left", tokens |-> {"PLUS", "MINUS"}],
       [assoc |-> "left", tokens |-> {"STAR", "DIVIDE"}],
       [assoc |-> "right", tokens |-> {"UMINUS", "UNOT"}] >>

\* SQLParser.precedence, lowest level first
SQLParser_precedence ==
    << [assoc |-> "nonassoc", tokens |-> ComparisonTokens],
       [assoc |-> "left", tokens |-> {"PLUS", "MINUS"}],
       [assoc |-> "left", tokens |-> {"STAR", "DIVIDE"}],
       [assoc |-> "right", tokens |-> {"UMINUS", "UNOT"}] >>

\* a terminal the table does not list binds tighter than every listed one
TokenPrec_unlistedHighest(type) ==
    LET rows == {i \in 1..Len(SQLParser_precedence) : type \in SQLParser_precedence[i].tokens}
    IN  IF rows = {} THEN [assoc |-> "right", level |-> Len(SQLParser_precedence) + 1]
        ELSE [assoc |-> SQLParser_precedence[Min(rows)].assoc, level |-> Min(rows)]

\* the precedence of a terminal: its row of the table, and ('right', 0) for a
\* terminal the table does not list
TokenPrec(type) ==
    LET rows == {i \in 1..Len(SQLParser_precedence) : type \in SQLParser_precedence[i].tokens}
    IN  IF rows = {} THEN [assoc |-> "right", level |-> 0]
        ELSE [assoc |-> SQLParser_precedence[Min(rows)].assoc, level |-> Min(rows)]

\* the binary operators of `expr PLUS expr`, ... that the parsed expressions use
BinaryTokens ==
    {"PLUS", "MINUS", "STAR", "DIVIDE", "MODULO", "AND"} \cup ComparisonTokens

\* 'MINUS expr %prec UMINUS', 'NOT expr %prec UNOT'
UnaryTokens == {"MINUS", "NOT"}

AtomTokens == {"ID", "INTEGER"}

\* the text the lexer matched for an operator token
Lexeme(type) ==
    CASE type = "PLUS" -> "+"
      [] type = "MINUS" -> "-"
      [] type = "STAR" -> "*"
      [] type = "DIVIDE" -> "/"
      [] type = "MODULO" -> "%"
      [] type = "EQUALS" -> "="
      [] type = "NEQUALS" -> "!="
      [] type = "LESS" -> "<"
      [] type = "LEQ" -> "<="
      [] type = "GREATER" -> ">"
      [] type = "GEQ" -> ">="
      [] type = "AND" -> "AND"
      [] type = "NOT" -> "NOT"

Token(type, value) == [type |-> type, value |-> value]

EndToken == Token("$end", "")

----------------------------------------------------------------------------
(* Expression parsing: the stack machine *)

Lookahead == IF tpos <= Len(tokens) THEN tokens[tpos] ELSE EndToken

ExprEntry(node) == [sym |-> "expr", node |-> node]

TopIsExpr == Len(stack) > 0 /\ stack[Len(stack)].sym = "expr"

\* `expr <op> expr` is on top of the stack
BinaryHandle ==
    /\ Len(stack) >= 3
    /\ TopIsExpr
    /\ stack[Len(stack) - 1].sym \in BinaryTokens
    /\ stack[Len(stack) - 2].sym = "expr"

\* `MINUS expr` or `NOT expr` is on top of the stack, with no operand before it
UnaryHandle ==
    /\ Len(stack) >= 2
    /\ TopIsExpr
    /\ stack[Len(stack) - 1].sym \in UnaryTokens
    /\ (Len(stack) >= 3 => stack[Len(stack) - 2].sym # "expr")

\* the precedence of the production on top of the stack: that of %prec, or
\* else of its rightmost terminal
HandlePrec ==
    IF BinaryHandle THEN TokenPrec(stack[Len(stack) - 1].sym)
    ELSE IF stack[Len(stack) - 1].sym = "MINUS" THEN TokenPrec("UMINUS")
    ELSE TokenPrec("UNOT")

\* how the parser generator settles the choice between reducing a production
\* of precedence r and shifting a token of precedence t
Resolve(r, t) ==
    IF t.level < r.level \/ (t.level = r.level /\ r.assoc = "left") THEN "reduce"
    ELSE IF t.level = r.level /\ r.assoc = "nonassoc" THEN "error"
    ELSE "shift"

\* the parser's move with a complete production on top of the stack
Move ==
    IF Lookahead.type \in {"$end", "RPAREN"} THEN "reduce"
    ELSE IF Lookahead.type \in BinaryTokens
    THEN Resolve(HandlePrec, TokenPrec(Lookahead.type))
    ELSE "error"

ExprParsing == pc = "parsing" /\ tokens # <<>>

\* the text of the i-th identifier / integer of a parsed expression
AtomNames == <<"a", "b", "c", "d", "e">>

AtomDigits == <<"1", "2", "3", "4", "5">>

\* int(p.INTEGER): the digits without their leading zero
int(lexeme) ==
    LET padded == {i \in 1..Len(AtomDigits) : lexeme = "0" \o AtomDigits[i]}
    IN  IF padded = {} THEN lexeme ELSE AtomDigits[Min(padded)]

\* identifier : ID, constant : INTEGER, expr : identifier | constant
ShiftOperand ==
    /\ ExprParsing
    /\ ~TopIsExpr
    /\ Lookahead.type \in AtomTokens
    /\ stack' = Append(stack,
                       ExprEntry(IF Lookahead.type = "ID"
                                 THEN Identifier(Lookahead.value)
                                 ELSE Constant("int", int(Lookahead.value))))
    /\ tpos' = tpos + 1
    /\ UNCHANGED <<pc, err, tree, tokens>>
    /\ UNCHANGED stmtVars
    /\ UNCHANGED lexVars

\* MINUS or NOT where an operand is expected
ShiftUnary ==
    /\ ExprParsing
    /\ ~TopIsExpr
    /\ Lookahead.type \in UnaryTokens
    /\ stack' = Append(stack, [sym |-> Lookahead.type, value |-> Lookahead.value])
    /\ tpos' = tpos + 1
    /\ UNCHANGED <<pc, err, tree, tokens>>
    /\ UNCHANGED stmtVars
    /\ UNCHANGED lexVars

\* a binary operator after an operand
ShiftBinary ==
    /\ ExprParsing
    /\ TopIsExpr
    /\ Lookahead.type \in BinaryTokens
    /\ (BinaryHandle \/ UnaryHandle) => Move = "shift"
    /\ stack' = Append(stack, [sym |-> Lookahead.type, value |-> Lookahead.value])
    /\ tpos' = tpos + 1
    /\ UNCHANGED <<pc, err, tree, tokens>>
    /\ UNCHANGED stmtVars
    /\ UNCHANGED lexVars

\* @_('expr PLUS expr', ...): BinaryOperation(op=p[1], args=(p.expr0, p.expr1))
ReduceBinary ==
    /\ ExprParsing
    /\ BinaryHandle
    /\ Move = "reduce"
    /\ LET n == Len(stack) IN
         stack' = Append(SubSeq(stack, 1, n - 3),
                         ExprEntry(BinaryOperation(stack[n - 1].value,
                                                   stack[n - 2].node, stack[n].node)))
    /\ UNCHANGED <<pc, err, tree, tokens, tpos>>
    /\ UNCHANGED stmtVars
    /\ UNCHANGED lexVars

\* @_('MINUS expr %prec UMINUS', 'NOT expr %prec UNOT'): UnaryOperation(op=p[0], args=(p.expr,))
ReduceUnary ==
    /\ ExprParsing
    /\ UnaryHandle
    /\ Move = "reduce"
    /\ LET n == Len(stack) IN
         stack' = Append(SubSeq(stack, 1, n - 2),
                         ExprEntry(UnaryOperation(stack[n - 1].value, stack[n].node)))
    /\ UNCHANGED <<pc, err, tree, tokens, tpos>>
    /\ UNCHANGED stmtVars
    /\ UNCHANGED lexVars

\* LPAREN where an operand is expected
ShiftLParen ==
    /\ ExprParsing
    /\ ~TopIsExpr
    /\ Lookahead.type = "LPAREN"
    /\ stack' = Append(stack, [sym |-> "LPAREN", value |-> Lookahead.value])
    /\ tpos' = tpos + 1
    /\ UNCHANGED <<pc, err, tree, tokens>>
    /\ UNCHANGED stmtVars
    /\ UNCHANGED lexVars

\* `LPAREN expr` is on top of the stack
ParenHandle ==
    /\ Len(stack) >= 2
    /\ TopIsExpr
    /\ stack[Len(stack) - 1].sym = "LPAREN"

\* @_('LPAREN expr RPAREN'): p.expr.parentheses = True; return p.expr
ReduceParen ==
    /\ ExprParsing
    /\ ParenHandle
    /\ Lookahead.type = "RPAREN"
    /\ LET n == Len(stack) IN
         stack' = Append(SubSeq(stack, 1, n - 2), ExprEntry(Parenthesized(stack[n].node)))
    /\ tpos' = tpos + 1
    /\ UNCHANGED <<pc, err, tree, tokens>>
    /\ UNCHANGED stmtVars
    /\ UNCHANGED lexVars

\* the lookahead token has no action in the parser's state
NoAction ==
    \/ ~TopIsExpr /\ Lookahead.type \notin AtomTokens \cup UnaryTokens \cup {"LPAREN"}
    \/ TopIsExpr /\ (BinaryHandle \/ UnaryHandle) /\ Move = "error"
    \/ TopIsExpr /\ Lookahead.type \notin BinaryTokens \cup {"$end", "RPAREN"}
    \/ /\ TopIsExpr
       /\ ~(BinaryHandle \/ UnaryHandle)
       /\ \/ Lookahead.type = "RPAREN" /\ ~ParenHandle
          \/ Lookahead.type = "$end" /\ Len(stack) > 1

\* error(p) with a token: "Syntax error at token <type>"
SyntaxErrorAtToken ==
    /\ ExprParsing
    /\ NoAction
    /\ Lookahead.type # "$end"
    /\ pc' = "error"
    /\ err' = ParsingException("Syntax error at token", "", Lookahead.type, None)
    /\ UNCHANGED <<tree, tokens, tpos, stack>>
    /\ UNCHANGED stmtVars
    /\ UNCHANGED lexVars

\* error(None): "Syntax error at EOF"
SyntaxErrorAtEOF ==
    /\ ExprParsing
    /\ NoAction
    /\ Lookahead.type = "$end"
    /\ pc' = "error"
    /\ err' = ParsingException("Syntax error at EOF", "", "", None)
    /\ UNCHANGED <<tree, tokens, tpos, stack>>
    /\ UNCHANGED stmtVars
    /\ UNCHANGED lexVars

\* the whole input is one expr: it becomes the result column
AcceptExpr ==
    /\ ExprParsing
    /\ Len(stack) = 1
    /\ TopIsExpr
    /\ Lookahead.type = "$end"
    /\ pc' = "done"
    /\ tree' = stack[1].node
    /\ UNCHANGED <<err, tokens, tpos, stack>>
    /\ UNCHANGED stmtVars
    /\ UNCHANGED lexVars

----------------------------------------------------------------------------
(* Expressions *)

\* the forms of an operand: an identifier or an integer, or an identifier
\* under a unary operator
OperandForms == {"ID", "INTEGER", "MINUS", "NOT"}

\* the tokens of the i-th operand of an expression, in the given form
OperandTokens(i, form) ==
    CASE form = "ID" -> <<Token("ID", AtomNames[i])>>
      [] form = "INTEGER" -> <<Token("INTEGER", AtomDigits[i])>>
      [] form = "MINUS" -> <<Token("MINUS", Lexeme("MINUS")), Token("ID", AtomNames[i])>>
      [] form = "NOT" -> <<Token("NOT", Lexeme("NOT")), Token("ID", AtomNames[i])>>

\* operand (operator operand)*, with k operands
RECURSIVE Chain(_, _, _)
Chain(forms, ops, k) ==
    IF k = 1 THEN OperandTokens(1, forms[1])
    ELSE Chain(forms, ops, k - 1)
             \o <<Token(ops[k - 1], Lexeme(ops[k - 1]))>>
             \o OperandTokens(k, forms[k])

\* the operators of the chains parsed with operands of every form
ChainTokens ==
    {"PLUS", "MINUS", "STAR", "DIVIDE", "MODULO", "EQUALS", "NEQUALS", "LESS", "AND"}

\* the operators of the chains of comparisons parsed
BooleanTokens == ComparisonTokens \cup {"AND"}

\* the expressions parsed: the chains of at most MaxOperands operands, those
\* of fewer operands with an operator left dangling at the end, and the
\* chains of at most MaxCompared identifiers under comparisons and ANDs
ExprInit ==
    /\ \/ \E k \in 1..MaxOperands :
            \E forms \in [1..k -> OperandForms], ops \in [1..(k - 1) -> ChainTokens] :
               \/ tokens = Chain(forms, ops, k)
               \/ /\ k < MaxOperands
                  /\ \E op \in ChainTokens :
                        tokens = Chain(forms, ops, k) \o <<Token(op, Lexeme(op))>>
       \/ \E k \in 2..MaxCompared :
            \E ops \in [1..(k - 1) -> BooleanTokens] :
               tokens = Chain([i \in 1..k |-> "ID"], ops, k)
    /\ tpos = 1
    /\ stack = <<>>
    /\ tree = None
    /\ pc = "parsing"
    /\ err = NoErr
    /\ clauses = <<>>
    /\ pos = 1
    /\ select = NewSelect
    /\ operand = None
    /\ result = None
    /\ input = <<>>
    /\ lexpos = 1

ExprNext ==
    \/ ShiftOperand
    \/ ShiftUnary
    \/ ShiftBinary
    \/ ReduceBinary
    \/ ReduceUnary
    \/ SyntaxErrorAtToken
    \/ SyntaxErrorAtEOF
    \/ AcceptExpr

ExprSpec == ExprInit /\ [][ExprNext]_vars

----------------------------------------------------------------------------
(* Rendering an AST and parsing the text again *)

\* the token type the lexer gives to the text of an operator
TokenType(text) == CHOOSE type \in BinaryTokens \cup UnaryTokens : Lexeme(type) = text

\* str(node), as the tokens the lexer makes of it: operands and operators in
\* infix order, a node whose parentheses flag is set between ( and )
RECURSIVE to_string(_)
to_string(node) ==
    LET body ==
          CASE node.kind = "Identifier" -> <<Token("ID", node.value)>>
            [] node.kind = "Constant" -> <<Token("INTEGER", node.value)>>
            [] node.kind = "BinaryOperation" ->
                 to_string(node.args[1])
                     \o <<Token(TokenType(node.op), node.op)>>
                     \o to_string(node.args[2])
            [] node.kind = "UnaryOperation" ->
                 <<Token(TokenType(node.op), node.op)>> \o to_string(node.args[1])
    IN  IF node.parentheses
        THEN <<Token("LPAREN", "(")>> \o body \o <<Token("RPAREN", ")")>>
        ELSE body

\* node.to_tree(): the structural dump, parenthesization flags included
RECURSIVE to_tree(_)
to_tree(node) ==
    CASE node.kind \in {"Identifier", "Constant"} ->
           <<node.kind, node.value, node.parentheses>>
      [] node.kind = "BinaryOperation" ->
           <<node.kind, node.op, node.parentheses,
             to_tree(node.args[1]), to_tree(node.args[2])>>
      [] node.kind = "UnaryOperation" ->
           <<node.kind, node.op, node.parentheses, to_tree(node.args[1])>>

\* sql = statement.get_string(); statement2 = parse_sql(sql): the AST of the
\* first parse is kept in result and its text is parsed
RenderAndParse ==
    /\ pc = "done"
    /\ result = None
    /\ result' = tree
    /\ tokens' = to_string(tree)
    /\ tpos' = 1
    /\ stack' = <<>>
    /\ tree' = None
    /\ pc' = "parsing"
    /\ UNCHANGED <<err, clauses, pos, select, operand>>
    /\ UNCHANGED lexVars

\* most pairs of parentheses around one sub-expression
MaxParens == 2

\* the operators of the parenthesized chains parsed
ParenChainTokens == {"PLUS", "STAR", "MODULO", "LESS"}

\* the forms of an operand of a parenthesized chain
ParenOperandForms == {"ID", "PADDED", "MINUS"}

\* the tokens of the i-th operand, "PADDED" being an integer with a leading zero
ParenOperandTokens(i, form) ==
    IF form = "PADDED" THEN <<Token("INTEGER", "0" \o AtomDigits[i])>>
    ELSE OperandTokens(i, form)

\* operand (operator operand)*, with depth pairs of parentheses around the
\* operands from..to
RECURSIVE ParenChain(_, _, _, _, _, _)
ParenChain(forms, ops, k, from, to, depth) ==
    LET open == [d \in 1..(IF k = from THEN depth ELSE 0) |-> Token("LPAREN", "(")]
        close == [d \in 1..(IF k = to THEN depth ELSE 0) |-> Token("RPAREN", ")")]
        last == open \o ParenOperandTokens(k, forms[k]) \o close
    IN  IF k = 1 THEN last
        ELSE ParenChain(forms, ops, k - 1, from, to, depth)
                 \o <<Token(ops[k - 1], Lexeme(ops[k - 1]))>>
                 \o last

\* the expressions parsed and parsed again
RoundTripInit ==
    /\ \E k \in 1..MaxOperands :
         \E forms \in [1..k -> ParenOperandForms], ops \in [1..(k - 1) -> ParenChainTokens],
            from \in 1..k, depth \in 0..MaxParens :
               \E to \in from..k :
                  tokens = ParenChain(forms, ops, k, from, to, depth)
    /\ tpos = 1
    /\ stack = <<>>
    /\ tree = None
    /\ pc = "parsing"
    /\ err = NoErr
    /\ clauses = <<>>
    /\ pos = 1
    /\ select = NewSelect
    /\ operand = None
    /\ result = None
    /\ input = <<>>
    /\ lexpos = 1

RoundTripNext ==
    \/ ShiftOperand
    \/ ShiftUnary
    \/ ShiftBinary
    \/ ShiftLParen
    \/ ReduceBinary
    \/ ReduceUnary
    \/ ReduceParen
    \/ SyntaxErrorAtToken
    \/ AcceptExpr
    \/ RenderAndParse

RoundTripSpec == RoundTripInit /\ [][RoundTripNext]_vars

----------------------------------------------------------------------------
(* Result columns: the productions of result_column *)

\* most `AS identifier` suffixes of a parsed result column
MaxAliases == 2

\* the symbols on the stack, by name
Symbols == [i \in 1..Len(stack) |-> stack[i].sym]

AliasNames == {"b", "c", "total"}

\* col.alias = value (a node has no alias until one is assigned)
SetAlias(col, value) ==
    [f \in DOMAIN col \cup {"alias"} |-> IF f = "alias" THEN value ELSE col[f]]

ColumnParsing == pc = "parsing" /\ tokens # <<>>

\* @_('expr') result_column: return p.expr, the expr being an identifier or a constant
result_column_expr ==
    /\ ColumnParsing
    /\ stack = <<>>
    /\ Lookahead.type \in AtomTokens
    /\ stack' = <<[sym |-> "result_column",
                   node |-> IF Lookahead.type = "ID"
                            THEN Identifier(Lookahead.value)
                            ELSE Constant("int", int(Lookahead.value))]>>
    /\ tpos' = tpos + 1
    /\ UNCHANGED <<pc, err, tree, tokens>>
    /\ UNCHANGED stmtVars
    /\ UNCHANGED lexVars

\* @_('result_column AS identifier'): col = p.result_column;
\* col.alias = p.identifier.value; return col
result_column_AS ==
    /\ ColumnParsing
    /\ Symbols = <<"result_column">>
    /\ Lookahead.type = "AS"
    /\ tpos + 1 <= Len(tokens)
    /\ tokens[tpos + 1].type = "ID"
    /\ stack' = <<[sym |-> "result_column",
                   node |-> SetAlias(stack[1].node, tokens[tpos + 1].value)]>>
    /\ tpos' = tpos + 2
    /\ UNCHANGED <<pc, err, tree, tokens>>
    /\ UNCHANGED stmtVars
    /\ UNCHANGED lexVars

\* @_('result_column') result_columns, @_('SELECT result_columns'): the column is the target
result_columns ==
    /\ ColumnParsing
    /\ Symbols = <<"result_column">>
    /\ Lookahead.type = "$end"
    /\ pc' = "done"
    /\ tree' = stack[1].node
    /\ UNCHANGED <<err, tokens, tpos, stack>>
    /\ UNCHANGED stmtVars
    /\ UNCHANGED lexVars

\* the result columns parsed: an identifier or an integer followed by at
\* most MaxAliases `AS identifier` suffixes
ColumnInit ==
    /\ \E i \in 1..Len(AtomNames), type \in AtomTokens, n \in 0..MaxAliases :
         \E names \in [1..n -> AliasNames] :
            tokens = OperandTokens(i, type)
                        \o [j \in 1..(2 * n) |->
                               IF j % 2 = 1 THEN Token("AS", "AS")
                               ELSE Token("ID", names[j \div 2])]
    /\ tpos = 1
    /\ stack = <<>>
    /\ tree = None
    /\ pc = "parsing"
    /\ err = NoErr
    /\ clauses = <<>>
    /\ pos = 1
    /\ select = NewSelect
    /\ operand = None
    /\ result = None
    /\ input = <<>>
    /\ lexpos = 1

ColumnNext ==
    \/ result_column_expr
    \/ result_column_AS
    \/ result_columns

ColumnSpec == ColumnInit /\ [][ColumnNext]_vars

----------------------------------------------------------------------------
(* FROM clause: the productions of from_table *)

\* join_clause : LEFT_JOIN | RIGHT_JOIN | INNER_JOIN | FULL_JOIN
JoinTokens == {"LEFT_JOIN", "RIGHT_JOIN", "INNER_JOIN", "FULL_JOIN"}

\* the text matched for a join keyword
JoinLexeme(type) ==
    CASE type = "LEFT_JOIN" -> "LEFT JOIN"
      [] type = "RIGHT_JOIN" -> "RIGHT JOIN"
      [] type = "INNER_JOIN" -> "INNER JOIN"
      [] type = "FULL_JOIN" -> "FULL JOIN"

\* Join(...) built without condition= : the attribute's default
DefaultCondition == None

\* Join(...) built without implicit= : the attribute's default
DefaultImplicit == FALSE

TableNames == {"t1", "t2", "db.t3"}

FromParsing == pc = "parsing" /\ tokens # <<>>

\* identifier : ID, table_or_subquery : identifier
table_or_subquery ==
    /\ FromParsing
    /\ Lookahead.type = "ID"
    /\ Symbols \in {<<>>, <<"table_or_subquery", "join_clause">>,
                     <<"table_or_subquery", "COMMA">>}
    /\ stack' = Append(stack, [sym |-> "table_or_subquery",
                               node |-> Identifier(Lookahead.value)])
    /\ tpos' = tpos + 1
    /\ UNCHANGED <<pc, err, tree, tokens>>
    /\ UNCHANGED stmtVars
    /\ UNCHANGED lexVars

\* join_clause: return p[0]
join_clause ==
    /\ FromParsing
    /\ Lookahead.type \in JoinTokens
    /\ Symbols = <<"table_or_subquery">>
    /\ stack' = Append(stack, [sym |-> "join_clause", value |-> Lookahead.value])
    /\ tpos' = tpos + 1
    /\ UNCHANGED <<pc, err, tree, tokens>>
    /\ UNCHANGED stmtVars
    /\ UNCHANGED lexVars

\* COMMA after the first table
ShiftComma ==
    /\ FromParsing
    /\ Lookahead.type = "COMMA"
    /\ Symbols = <<"table_or_subquery">>
    /\ stack' = Append(stack, [sym |-> "COMMA", value |-> Lookahead.value])
    /\ tpos' = tpos + 1
    /\ UNCHANGED <<pc, err, tree, tokens>>
    /\ UNCHANGED stmtVars
    /\ UNCHANGED lexVars

\* ON after the joined table, and the expression that follows it reduced to expr
ShiftOn ==
    /\ FromParsing
    /\ Lookahead.type = "ON"
    /\ Symbols = <<"table_or_subquery", "join_clause", "table_or_subquery">>
    /\ \E expr \in Exprs :
          stack' = stack \o <<[sym |-> "ON", value |-> Lookahead.value], ExprEntry(expr)>>
    /\ tpos' = tpos + 1
    /\ UNCHANGED <<pc, err, tree, tokens>>
    /\ UNCHANGED stmtVars
    /\ UNCHANGED lexVars

\* the from_table was reduced to node: it is the operand of `select FROM from_table`
ReturnFromTable(node) ==
    /\ pc' = "done"
    /\ tree' = node
    /\ UNCHANGED <<err, tokens, tpos, stack>>
    /\ UNCHANGED stmtVars
    /\ UNCHANGED lexVars

\* left and right exchanged
from_table_join_swapped ==
    /\ FromParsing
    /\ Lookahead.type = "$end"
    /\ Symbols = <<"table_or_subquery", "join_clause", "table_or_subquery">>
    /\ ReturnFromTable(Join(stack[3].node, stack[1].node, stack[2].value,
                            DefaultCondition, DefaultImplicit))

\* @_('table_or_subquery join_clause table_or_subquery')
from_table_join ==
    /\ FromParsing
    /\ Lookahead.type = "$end"
    /\ Symbols = <<"table_or_subquery", "join_clause", "table_or_subquery">>
    /\ ReturnFromTable(Join(stack[1].node, stack[3].node, stack[2].value,
                            DefaultCondition, DefaultImplicit))

\* @_('table_or_subquery COMMA table_or_subquery')
from_table_comma ==
    /\ FromParsing
    /\ Lookahead.type = "$end"
    /\ Symbols = <<"table_or_subquery", "COMMA", "table_or_subquery">>
    /\ ReturnFromTable(Join(stack[1].node, stack[3].node, "INNER JOIN",
                            DefaultCondition, TRUE))

\* @_('table_or_subquery join_clause table_or_subquery ON expr')
from_table_on ==
    /\ FromParsing
    /\ Lookahead.type = "$end"
    /\ Symbols = <<"table_or_subquery", "join_clause", "table_or_subquery", "ON", "expr">>
    /\ ReturnFromTable(Join(stack[1].node, stack[3].node, stack[2].value,
                            stack[5].node, DefaultImplicit))

\* @_('table_or_subquery')
from_table_single ==
    /\ FromParsing
    /\ Lookahead.type = "$end"
    /\ Symbols = <<"table_or_subquery">>
    /\ ReturnFromTable(stack[1].node)

\* the FROM clauses parsed: one table, two tables under a comma, and two
\* tables under each join keyword, without and with ON <expr> (the tokens of
\* the expression are left to the step that reduces it)
FromInit ==
    /\ \E t1 \in TableNames, t2 \in TableNames :
         \/ tokens = <<Token("ID", t1)>>
         \/ tokens = <<Token("ID", t1), Token("COMMA", ","), Token("ID", t2)>>
         \/ \E j \in JoinTokens :
               \/ tokens = <<Token("ID", t1), Token(j, JoinLexeme(j)), Token("ID", t2)>>
               \/ tokens = <<Token("ID", t1), Token(j, JoinLexeme(j)), Token("ID", t2),
                             Token("ON", "ON")>>
    /\ tpos = 1
    /\ stack = <<>>
    /\ tree = None
    /\ pc = "parsing"
    /\ err = NoErr
    /\ clauses = <<>>
    /\ pos = 1
    /\ select = NewSelect
    /\ operand = None
    /\ result = None
    /\ input = <<>>
    /\ lexpos = 1

FromNext ==
    \/ table_or_subquery
    \/ join_clause
    \/ ShiftComma
    \/ ShiftOn
    \/ from_table_join
    \/ from_table_comma
    \/ from_table_on
    \/ from_table_single

FromSpec == FromInit /\ [][FromNext]_vars

----------------------------------------------------------------------------
(* The lexer: SQLLexer *)

\* longest text tokenized
MaxText == 4

\* the characters of the texts tokenized
Alphabet == {"o", "n", "N", "x", "0", "1", ".", "$", " "}

\* \d
Digits == {"0", "1", "2", "3", "4", "5", "6", "7", "8", "9"}

\* [a-zA-Z_$], over the alphabet
IdLetters == {"o", "n", "N", "x", "_", "$"}

\* [a-zA-Z_$0-9]
IdChars == IdLetters \cup Digits

\* \w, the characters between which \b finds no boundary
WordChars == (IdLetters \ {"$"}) \cup Digits

\* ignore = ' \t\n\r'
IgnoreChars == {" "}

Max(S) == CHOOSE m \in S : \A n \in S : m >= n

\* the length of the longest run of characters of S that starts at i
Run(i, S) ==
    Max({n \in 0..(Len(input) + 1 - i) : \A k \in i..(i + n - 1) : input[k] \in S})

\* \b at i: exactly one of the characters before and at i is a word character
WordBoundary(i) ==
    (i > 1 /\ input[i - 1] \in WordChars) # (i <= Len(input) /\ input[i] \in WordChars)

\* re.IGNORECASE
Lower(c) == CASE c = "N" -> "n" [] c = "O" -> "o" [] OTHER -> c

\* r'\bON\b': the length matched at i, 0 for no match
ON_match(i) ==
    IF /\ i + 1 <= Len(input)
       /\ Lower(input[i]) = "o"
       /\ Lower(input[i + 1]) = "n"
       /\ WordBoundary(i)
       /\ WordBoundary(i + 2)
    THEN 2 ELSE 0

\* r'\.'
DOT_match(i) == IF input[i] = "." THEN 1 ELSE 0

\* [a-zA-Z_$0-9]*[a-zA-Z_$]+[a-zA-Z_$0-9]* : the longest run of identifier
\* characters, which must hold a character that is not a digit
Segment(i) ==
    LET n == Run(i, IdChars)
    IN  IF \E k \in i..(i + n - 1) : input[k] \in IdLetters THEN n ELSE 0

\* (?:\.segment)* from e: the index after the last segment matched
RECURSIVE Dotted(_)
Dotted(e) ==
    IF e <= Len(input) /\ input[e] = "." /\ Segment(e + 1) > 0
    THEN Dotted(e + 1 + Segment(e + 1))
    ELSE e

\* the pattern of ID (back-quoted segments apart)
ID_match(i) == IF Segment(i) = 0 THEN 0 ELSE Dotted(i + Segment(i)) - i

\* r'\d+\.\d+'
FLOAT_match(i) ==
    LET whole == Run(i, Digits)
        fraction == IF i + whole <= Len(input) /\ input[i + whole] = "."
                    THEN Run(i + whole + 1, Digits) ELSE 0
    IN  IF whole > 0 /\ fraction > 0 THEN whole + 1 + fraction ELSE 0

\* r'\d+'
INTEGER_match(i) == Run(i, Digits)

\* INTEGER defined before FLOAT
Rules_integerBeforeFloat == <<"ON", "DOT", "ID", "INTEGER", "FLOAT">>

\* the token rules in the order of their definition in the class
Rules == <<"ON", "DOT", "ID", "FLOAT", "INTEGER">>

Match(rule, i) ==
    CASE rule = "ON" -> ON_match(i)
      [] rule = "DOT" -> DOT_match(i)
      [] rule = "ID" -> ID_match(i)
      [] rule = "FLOAT" -> FLOAT_match(i)
      [] rule = "INTEGER" -> INTEGER_match(i)

\* the rule of the master pattern that matches at i: the first, in the
\* order of definition, whose pattern matches
Matched(i) ==
    LET m == {k \in 1..Len(Rules) : Match(Rules[k], i) > 0}
    IN  IF m = {} THEN "none" ELSE Rules[Min(m)]

DigitValue(c) == CHOOSE d \in 0..9 : c = <<"0", "1", "2", "3", "4", "5", "6", "7", "8", "9">>[d + 1]

\* int(t.value)
RECURSIVE IntValue(_)
IntValue(digits) ==
    IF digits = <<>> THEN 0
    ELSE 10 * IntValue(SubSeq(digits, 1, Len(digits) - 1)) + DigitValue(digits[Len(digits)])

\* the digits of a fraction without its trailing zeros
RECURSIVE Fraction(_)
Fraction(digits) ==
    IF digits # <<>> /\ digits[Len(digits)] = "0"
    THEN Fraction(SubSeq(digits, 1, Len(digits) - 1))
    ELSE digits

\* float(t.value): the number, as its whole part and the digits of its fraction
FloatValue(chars) ==
    LET dot == CHOOSE k \in 1..Len(chars) : chars[k] = "."
    IN  [whole |-> IntValue(SubSeq(chars, 1, dot - 1)),
         fraction |-> Fraction(SubSeq(chars, dot + 1, Len(chars)))]

Tokenizing == pc = "parsing" /\ lexpos <= Len(input)

\* the token of n characters at lexpos is emitted
Emit(type, value, n) ==
    /\ tokens' = Append(tokens, [type |-> type, value |-> value,
                                 index |-> lexpos, end |-> lexpos + n])
    /\ lexpos' = lexpos + n
    /\ UNCHANGED <<input, pc, err, tpos, stack, tree>>
    /\ UNCHANGED stmtVars

\* the text the pattern matched
Matching(n) == SubSeq(input, lexpos, lexpos + n - 1)

\* a character of `ignore` is skipped
ignore ==
    /\ Tokenizing
    /\ input[lexpos] \in IgnoreChars
    /\ lexpos' = lexpos + 1
    /\ UNCHANGED <<input, tokens, pc, err, tpos, stack, tree>>
    /\ UNCHANGED stmtVars

\* ON = r'\bON\b'
ON ==
    /\ Tokenizing
    /\ Matched(lexpos) = "ON"
    /\ Emit("ON", Matching(ON_match(lexpos)), ON_match(lexpos))

\* DOT = r'\.'
DOT ==
    /\ Tokenizing
    /\ Matched(lexpos) = "DOT"
    /\ Emit("DOT", Matching(1), 1)

\* def ID(self, t): return t
ID ==
    /\ Tokenizing
    /\ Matched(lexpos) = "ID"
    /\ Emit("ID", Matching(ID_match(lexpos)), ID_match(lexpos))

\* def FLOAT(self, t): t.value = float(t.value)
FLOAT ==
    /\ Tokenizing
    /\ Matched(lexpos) = "FLOAT"
    /\ Emit("FLOAT", FloatValue(Matching(FLOAT_match(lexpos))), FLOAT_match(lexpos))

\* def INTEGER(self, t): t.value = int(t.value)
INTEGER ==
    /\ Tokenizing
    /\ Matched(lexpos) = "INTEGER"
    /\ Emit("INTEGER", IntValue(Matching(INTEGER_match(lexpos))), INTEGER_match(lexpos))

\* the end of the text: the tokens are complete
EndOfText ==
    /\ pc = "parsing"
    /\ lexpos > Len(input)
    /\ pc' = "done"
    /\ UNCHANGED <<input, lexpos, tokens, err, tpos, stack, tree>>
    /\ UNCHANGED stmtVars

\* the texts tokenized: every text of at most MaxText characters of the alphabet
LexInit ==
    /\ \E n \in 0..MaxText : input \in [1..n -> Alphabet]
    /\ lexpos = 1
    /\ tokens = <<>>
    /\ tpos = 1
    /\ stack = <<>>
    /\ tree = None
    /\ pc = "parsing"
    /\ err = NoErr
    /\ clauses = <<>>
    /\ pos = 1
    /\ select = NewSelect
    /\ operand = None
    /\ result = None

LexNext ==
    \/ ignore
    \/ ON
    \/ DOT
    \/ ID
    \/ FLOAT
    \/ INTEGER
    \/ EndOfText

LexSpec == LexInit /\ [][LexNext]_vars

----------------------------------------------------------------------------
(* ensure_select_keyword_order as a function of any Select and any clause *)

\* a Select on which exactly the clauses of S are set
SelectWith(S) ==
    [from_table |-> IF "FROM" \in S THEN Identifier("table") ELSE None,
     where |-> IF "WHERE" \in S
               THEN BinaryOperation("!=", Identifier("column"), Constant("int", "1"))
               ELSE None,
     group_by |-> IF "GROUP BY" \in S THEN List(<<Identifier("column")>>) ELSE None,
     having |-> IF "HAVING" \in S
                THEN BinaryOperation("!=", Identifier("column"), Constant("int", "1"))
                ELSE None,
     order_by |-> IF "ORDER BY" \in S
                  THEN List(<<OrderBy(Identifier("column"), "ASC")>>)
                  ELSE None,
     limit |-> IF "LIMIT" \in S THEN Constant("int", "5") ELSE None,
     offset |-> IF "OFFSET" \in S THEN Constant("int", "0") ELSE None]

\* ensure_select_keyword_order(select, operation) is called: it raises or returns
CheckOrder ==
    /\ Reducing(clauses[pos])
    /\ err' = ensure_select_keyword_order(select, clauses[pos])
    /\ pc' = IF err' = NoErr THEN "done" ELSE "error"
    /\ UNCHANGED stmtVars
    /\ UNCHANGED exprVars
    /\ UNCHANGED lexVars

\* the calls made: every clause, on a Select with any of the seven clauses set
OrderInit ==
    /\ \E S \in SUBSET Clauses : select = SelectWith(S)
    /\ \E operation \in Clauses : clauses = <<operation>>
    /\ pos = 1
    /\ operand = None
    /\ pc = "parsing"
    /\ err = NoErr
    /\ result = None
    /\ input = <<>>
    /\ lexpos = 1
    /\ tokens = <<>>
    /\ tpos = 1
    /\ stack = <<>>
    /\ tree = None

OrderNext == CheckOrder

OrderSpec == OrderInit /\ [][OrderNext]_vars

----------------------------------------------------------------------------
(* Vocabulary of the properties, stated without the tables of ensure_select_keyword_order *)

CanonicalOrder == <<"FROM", "WHERE", "GROUP BY", "HAVING", "ORDER BY", "LIMIT", "OFFSET">>

CanonicalPos(c) == CHOOSE i \in 1..Len(CanonicalOrder) : CanonicalOrder[i] = c

\* clause c is set on the Select
IsSet(sel, c) == op_to_attr(sel, c) # None

\* the clauses later than c in canonical order that are set on the Select
LaterSet(sel, c) ==
    {d \in Clauses : CanonicalPos(d) > CanonicalPos(c) /\ IsSet(sel, d)}

\* the prerequisite of c is missing on the Select
PrerequisiteUnset(sel, c) ==
    \/ c \in {"WHERE", "GROUP BY", "ORDER BY"} /\ ~IsSet(sel, "FROM")
    \/ c = "HAVING" /\ ~IsSet(sel, "GROUP BY")

\* the statement holds each of the seven clauses exactly once
IsPermutation(s) ==
    /\ Len(s) = Len(CanonicalOrder)
    /\ {s[i] : i \in 1..Len(s)} = Clauses

\* an operand of the kind the clause accepts (as the operands of test_select_order are)
AcceptedOperand(c, x) ==
    CASE c \in {"WHERE", "HAVING"} -> x.kind \in {"BinaryOperation", "UnaryOperation"}
      [] c = "GROUP BY" -> \A i \in 1..Len(x.items) : x.items[i].kind = "Identifier"
      [] c \in {"LIMIT", "OFFSET"} -> x.type = "int"
      [] OTHER -> TRUE

OrderMessages == {"must go after", "requires"}

----------------------------------------------------------------------------
(* C1: with the seven clauses each appearing exactly once, the canonical   *)
(* order parses successfully and every other permutation ends in a parsing *)
(* error whose message says "must go after" or "requires" (never a         *)
(* duplicate-clause error, never success); operands are the accepted ones, *)
(* as in test_select_order.                                                *)
C1_SelectOrder ==
    IsPermutation(clauses) =>
        /\ pc = "parsing" => ENABLED Next
        /\ clauses = CanonicalOrder =>
              (pc = "error" => ~AcceptedOperand(clauses[pos], operand))
        /\ clauses # CanonicalOrder =>
              /\ pc # "done"
              /\ (pc = "error" /\ AcceptedOperand(clauses[pos], operand))
                     => err.text \in OrderMessages

\* a permutation that is canonical up to its last two clauses was rejected at the last one
C1_Witness ==
    /\ IsPermutation(clauses)
    /\ pc = "error"
    /\ pos = Len(clauses)
    /\ err = ParsingException("must go after", "LIMIT", "OFFSET", None)

----------------------------------------------------------------------------
(* C2: attaching a clause that is already set on the Select fails with the *)
(* duplicate-clause error naming that clause, and a Select that was        *)
(* returned never had a clause attached twice.                             *)
C2_Duplicate ==
    /\ [][\A c \in Clauses :
            (Reducing(c) /\ IsSet(select, c)) =>
                /\ pc' = "error"
                /\ err' = ParsingException("Duplicate", c, c, None)
                /\ select' = select]_vars
    /\ [](pc = "done" =>
            \A i, j \in 1..Len(clauses) : clauses[i] = clauses[j] => i = j)

\* HAVING was attached to a Select that already had one
C2_Witness ==
    /\ pc = "error"
    /\ err.text = "Duplicate"
    /\ err.clause = "HAVING"
    /\ select.having # None

----------------------------------------------------------------------------
(* C3: attaching WHERE, GROUP BY or ORDER BY to a Select without FROM, or  *)
(* HAVING to a Select without GROUP BY, fails with "<C> requires           *)
(* <prerequisite>"; FROM, LIMIT and OFFSET have no prerequisite.           *)
C3_Requires ==
    /\ [][\A c \in {"WHERE", "GROUP BY", "ORDER BY"} :
            (Reducing(c) /\ ~IsSet(select, "FROM")) =>
                /\ pc' = "error"
                /\ err' = ParsingException("requires", c, "FROM", None)]_vars
    /\ [][(Reducing("HAVING") /\ ~IsSet(select, "GROUP BY")) =>
                /\ pc' = "error"
                /\ err' = ParsingException("requires", "HAVING", "GROUP BY", None)]_vars
    /\ [](err.text = "requires" => err.clause \notin {"FROM", "LIMIT", "OFFSET"})
    /\ [][\A c \in {"FROM", "LIMIT", "OFFSET"} :
            (Reducing(c) /\ select = NewSelect /\ AcceptedOperand(c, operand')) =>
                pc' = "parsing" /\ IsSet(select', c)]_vars

\* HAVING was attached to a Select with FROM but no GROUP BY
C3_Witness ==
    /\ pc = "error"
    /\ err = ParsingException("requires", "HAVING", "GROUP BY", None)
    /\ select.from_table # None

----------------------------------------------------------------------------
(* C4 as stated: attaching clause C to a Select on which a clause later    *)
(* than C is set fails with "C must go after <that later clause>".         *)
C4_Original ==
    [][\A c \in Clauses :
          (Reducing(c) /\ LaterSet(select, c) # {}) =>
              /\ pc' = "error"
              /\ err'.text = "must go after"
              /\ err'.clause = c
              /\ err'.arg \in LaterSet(select, c)]_vars

(* C4: attaching clause C to a Select on which C is not set, C's           *)
(* prerequisite is not missing and a clause later than C is set fails with *)
(* "C must go after <a later clause that is set>".                         *)
C4_MustGoAfter ==
    [][\A c \in Clauses :
          (/\ Reducing(c)
           /\ ~IsSet(select, c)
           /\ ~PrerequisiteUnset(select, c)
           /\ LaterSet(select, c) # {}) =>
              /\ pc' = "error"
              /\ err'.text = "must go after"
              /\ err'.clause = c
              /\ err'.arg \in LaterSet(select, c)]_vars

\* ORDER BY was attached to a Select with FROM and OFFSET
C4_Witness ==
    /\ pc = "error"
    /\ err = ParsingException("must go after", "ORDER BY", "OFFSET", None)
    /\ select.from_table # None
    /\ select.limit = None

----------------------------------------------------------------------------
(* C5: the clause checks run as each clause is reduced, left to right: the *)
(* error raised is the one of the leftmost violating clause, the parse     *)
(* stops there (no later clause is checked or attached) and no Select is   *)
(* returned.                                                               *)

\* clause i of the statement breaks a clause-order rule, judged on the text alone
BreaksOrderRule(i) ==
    LET before == {clauses[j] : j \in 1..(i - 1)}
        c == clauses[i]
    IN  \/ c \in before
        \/ c \in {"WHERE", "GROUP BY", "ORDER BY"} /\ "FROM" \notin before
        \/ c = "HAVING" /\ "GROUP BY" \notin before
        \/ \E d \in before : CanonicalPos(d) > CanonicalPos(c)

OperandMessages ==
    { "must be an integer value",
      "must contain an operation that evaluates to a boolean",
      "must contain a list identifiers" }

C5_LeftmostViolation ==
    /\ [](\A i \in 1..(pos - 1) : ~BreaksOrderRule(i))
    /\ [](pc = "error" =>
            /\ pos <= Len(clauses)
            /\ err.clause = clauses[pos]
            /\ BreaksOrderRule(pos) <=> err.text \notin OperandMessages
            /\ {c \in Clauses : IsSet(select, c)} = {clauses[j] : j \in 1..(pos - 1)}
            /\ result = None)
    /\ [](pc = "done" => pos = Len(clauses) + 1 /\ result = select)
    /\ [][pc = "error" => UNCHANGED vars]_vars

\* the parse stopped at a violating clause that has another violating clause to its right
C5_Witness ==
    /\ pc = "error"
    /\ pos >= 2
    /\ \E j \in (pos + 1)..Len(clauses) : BreaksOrderRule(j)

----------------------------------------------------------------------------
(* C6: LIMIT or OFFSET followed by a float or string constant raises a     *)
(* parsing error, so limit and offset of a returned Select, when set, are  *)
(* Constants holding an integer.                                           *)

IsIntegerConstant(x) == x.kind = "Constant" /\ x.type = "int"

C6_IntegerLimitOffset ==
    /\ [][\A c \in {"LIMIT", "OFFSET"} :
            (Reducing(c) /\ operand'.type \in {"float", "str"}) => pc' = "error"]_vars
    /\ [](/\ select.limit # None => IsIntegerConstant(select.limit)
          /\ select.offset # None => IsIntegerConstant(select.offset))
    /\ [](pc = "done" =>
            /\ result.limit # None => IsIntegerConstant(result.limit)
            /\ result.offset # None => IsIntegerConstant(result.offset))

\* LIMIT "string", in valid position, was rejected for its operand
C6_Witness ==
    /\ pc = "error"
    /\ err = ParsingException("must be an integer value", "LIMIT", "",
                              Constant("str", "string"))

----------------------------------------------------------------------------
(* C7: a WHERE (resp. HAVING) clause in valid position whose expression is *)
(* a bare identifier or constant raises a parsing error saying "WHERE      *)
(* (resp. HAVING) must contain an operation that evaluates to a boolean"   *)
(* followed by the offending expression.                                   *)

ValidPosition(sel, c) ==
    /\ ~IsSet(sel, c)
    /\ ~PrerequisiteUnset(sel, c)
    /\ LaterSet(sel, c) = {}

C7_MustBeAnOperation ==
    [][\A c \in {"WHERE", "HAVING"} :
          (/\ Reducing(c)
           /\ ValidPosition(select, c)
           /\ operand'.kind \in {"Identifier", "Constant"}) =>
              /\ pc' = "error"
              /\ err' = ParsingException(
                            "must contain an operation that evaluates to a boolean",
                            c, "", operand')]_vars

\* HAVING column, after FROM and GROUP BY, was rejected
C7_Witness ==
    /\ pc = "error"
    /\ err.text = "must contain an operation that evaluates to a boolean"
    /\ err.clause = "HAVING"
    /\ err.got = Identifier("column")

----------------------------------------------------------------------------
(* C8: where and having of a returned Select, when set, hold a             *)
(* BinaryOperation or a UnaryOperation (possibly parenthesized), never a   *)
(* Function, an Identifier or a Constant.                                  *)

BooleanShaped(x) == x.kind \in {"BinaryOperation", "UnaryOperation"}

----------------------------------------------------------------------------
(* C9: a GROUP BY list with an element that is not an Identifier raises a  *)
(* parsing error, so group_by of a returned Select, when set, is a         *)
(* non-empty list of Identifiers.                                          *)

IdentifierList(x) ==
    /\ x.kind = "list"
    /\ Len(x.items) >= 1
    /\ \A i \in 1..Len(x.items) : x.items[i].kind = "Identifier"

----------------------------------------------------------------------------
\* C10: multiplication and division bind tighter than addition and
\* subtraction, and both levels are left-associative: for operands a, b, c,
\* `a + b * c` parses as a + [b * c], `a * b + c` as [a * b] + c,
\* `a - b - c` as [a - b] - c and `a / b / c` as [a / b] / c.

Additive == {"+", "-"}

Multiplicative == {"*", "/"}

\* the AST of a bare operand token
Leaf(t) == IF t.type = "ID" THEN Identifier(t.value) ELSE Constant("int", t.value)

\* the expression is `x op1 y op2 z` with bare operands and arithmetic operators
ArithmeticTriple ==
    /\ Len(tokens) = 5
    /\ \A i \in {1, 3, 5} : tokens[i].type \in {"ID", "INTEGER"}
    /\ \A i \in {2, 4} : tokens[i].value \in Additive \cup Multiplicative

LeftGrouped ==
    BinaryOperation(tokens[4].value,
                    BinaryOperation(tokens[2].value, Leaf(tokens[1]), Leaf(tokens[3])),
                    Leaf(tokens[5]))

RightGrouped ==
    BinaryOperation(tokens[2].value,
                    Leaf(tokens[1]),
                    BinaryOperation(tokens[4].value, Leaf(tokens[3]), Leaf(tokens[5])))

C10_ArithmeticPrecedence ==
    ArithmeticTriple =>
        /\ pc # "error"
        /\ pc = "parsing" => ENABLED ExprNext
        /\ pc = "done" =>
              tree = IF tokens[2].value \in Additive /\ tokens[4].value \in Multiplicative
                     THEN RightGrouped
                     ELSE LeftGrouped

\* a + b * c was parsed to a + [b * c]
C10_Witness ==
    /\ pc = "done"
    /\ [i \in 1..Len(tokens) |-> tokens[i].value] = <<"a", "+", "b", "*", "c">>
    /\ tree = BinaryOperation("+", Identifier("a"),
                              BinaryOperation("*", Identifier("b"), Identifier("c")))

----------------------------------------------------------------------------
\* C11 as stated: `%` is left-associative and binds tighter than `+` and
\* `-`, at the level of `*` and `/`: for operands a, b, c, `a + b % c` parses
\* as a + [b % c], `a % b + c` as [a % b] + c and `a % b % c` as [a % b] % c.

Modulo == {"%"}

\* the expression is `x op1 y op2 z` with bare operands and arithmetic
\* operators, one of them `%`
ModuloTriple ==
    /\ Len(tokens) = 5
    /\ \A i \in {1, 3, 5} : tokens[i].type \in {"ID", "INTEGER"}
    /\ \A i \in {2, 4} : tokens[i].value \in Additive \cup Multiplicative \cup Modulo
    /\ \E i \in {2, 4} : tokens[i].value \in Modulo

C11_ModuloPrecedence ==
    ModuloTriple =>
        /\ pc # "error"
        /\ pc = "done" =>
              tree = IF /\ tokens[2].value \in Additive
                        /\ tokens[4].value \in Multiplicative \cup Modulo
                     THEN RightGrouped
                     ELSE LeftGrouped

\* a + b % c was parsed to [a + b] % c
C11_Witness ==
    /\ pc = "done"
    /\ [i \in 1..Len(tokens) |-> tokens[i].value] = <<"a", "+", "b", "%", "c">>
    /\ tree = BinaryOperation("%",
                              BinaryOperation("+", Identifier("a"), Identifier("b")),
                              Identifier("c"))

----------------------------------------------------------------------------
\* C12: `x cmp1 y AND u cmp2 v`, cmp1 and cmp2 any comparison operators,
\* parses to the BinaryOperation AND of the two comparison BinaryOperations,
\* in source order.

\* the expression is `x cmp1 y AND u cmp2 v` with bare operands
ConjunctionOfComparisons ==
    /\ Len(tokens) = 7
    /\ \A i \in {1, 3, 5, 7} : tokens[i].type \in {"ID", "INTEGER"}
    /\ \A i \in {2, 6} : tokens[i].value \in {"<", "<=", ">", ">=", "=", "!="}
    /\ tokens[4].value = "AND"

C12_AndOfComparisons ==
    ConjunctionOfComparisons =>
        /\ pc # "error"
        /\ pc = "parsing" => ENABLED ExprNext
        /\ pc = "done" =>
              tree = BinaryOperation("AND",
                         BinaryOperation(tokens[2].value, Leaf(tokens[1]), Leaf(tokens[3])),
                         BinaryOperation(tokens[6].value, Leaf(tokens[5]), Leaf(tokens[7])))

\* a <= b AND c != d was parsed with AND at the root
C12_Witness ==
    /\ pc = "done"
    /\ [i \in 1..Len(tokens) |-> tokens[i].value] = <<"a", "<=", "b", "AND", "c", "!=", "d">>
    /\ tree.op = "AND"
    /\ tree.args[1].op = "<="
    /\ tree.args[2].op = "!="

----------------------------------------------------------------------------
\* C13: the comparison operators are non-associative: `x cmp1 y cmp2 z` is
\* rejected with a syntax error, at the second comparison operator, and is
\* parsed with neither grouping.

\* the expression is `x cmp1 y cmp2 z` with bare operands
ComparisonChain ==
    /\ Len(tokens) = 5
    /\ \A i \in {1, 3, 5} : tokens[i].type \in {"ID", "INTEGER"}
    /\ \A i \in {2, 4} : tokens[i].value \in {"<", "<=", ">", ">=", "=", "!="}

C13_ComparisonsNonAssociative ==
    ComparisonChain =>
        /\ pc # "done"
        /\ tree = None
        /\ pc = "parsing" => ENABLED ExprNext
        /\ pc = "error" =>
              /\ err = ParsingException("Syntax error at token", "", tokens[4].type, None)
              /\ tpos = 4

\* a = b != c was rejected at !=
C13_Witness ==
    /\ pc = "error"
    /\ [i \in 1..Len(tokens) |-> tokens[i].value] = <<"a", "=", "b", "!=", "c">>
    /\ err = ParsingException("Syntax error at token", "", "NEQUALS", None)

----------------------------------------------------------------------------
\* C14: `t1, t2` yields a Join with join_type INNER JOIN, implicit true and
\* no condition; `t1 <join keyword> t2` a Join of that join type with no
\* condition and implicit false; `t1 <join keyword> t2 ON e` a Join of that
\* type whose condition is e and implicit false; a single table yields the
\* Identifier itself. Left and right are the first and second table.

JoinKeywords == {"INNER JOIN", "LEFT JOIN", "RIGHT JOIN", "FULL JOIN"}

\* the Join of the first and the third token's tables
JoinOfTables(join_type, condition, implicit) ==
    [kind |-> "Join",
     left |-> [kind |-> "Identifier", value |-> tokens[1].value, parentheses |-> FALSE],
     right |-> [kind |-> "Identifier", value |-> tokens[3].value, parentheses |-> FALSE],
     join_type |-> join_type, condition |-> condition, implicit |-> implicit]

C14_FromTable ==
    /\ pc # "error"
    /\ pc = "parsing" => ENABLED FromNext
    /\ pc = "done" =>
          /\ Len(tokens) = 1 =>
                tree = [kind |-> "Identifier", value |-> tokens[1].value,
                        parentheses |-> FALSE]
          /\ (Len(tokens) = 3 /\ tokens[2].value = ",") =>
                tree = JoinOfTables("INNER JOIN", [kind |-> "None"], TRUE)
          /\ (Len(tokens) = 3 /\ tokens[2].value \in JoinKeywords) =>
                tree = JoinOfTables(tokens[2].value, [kind |-> "None"], FALSE)
          /\ (Len(tokens) = 4 /\ tokens[2].value \in JoinKeywords) =>
                /\ tokens[4].value = "ON"
                /\ stack[5].node \in Exprs
                /\ tree = JoinOfTables(tokens[2].value, stack[5].node, FALSE)
          /\ Len(tokens) \in {1, 3, 4}
          /\ Len(tokens) > 1 => tokens[2].value \in JoinKeywords \cup {","}

\* t1 LEFT JOIN t2 ON column != 1 was reduced to a Join
C14_Witness ==
    /\ pc = "done"
    /\ tree = Join(Identifier("t1"), Identifier("t2"), "LEFT JOIN",
                   BinaryOperation("!=", Identifier("column"), Constant("int", "1")),
                   FALSE)

----------------------------------------------------------------------------
\* C15: round trip: for every AST a the parser produces, rendering a and
\* parsing the text again succeeds and yields an AST whose tree form equals
\* that of a; and for text in canonical form (no sub-expression in more than
\* one pair of parentheses, no integer with a leading zero) rendering the
\* parsed AST gives the text back.

Canonical(text) ==
    /\ \A i \in 1..(Len(text) - 1) : ~(text[i].type = "LPAREN" /\ text[i + 1].type = "LPAREN")
    /\ \A i \in 1..Len(text) :
          text[i].type = "INTEGER" => text[i].value \in {"1", "2", "3", "4", "5"}

----------------------------------------------------------------------------
\* C16 as stated: alias attachment happens at most once per node: no step
\* writes the alias of a result column whose alias is already set, and the
\* alias of a returned column is the one of its first `AS <identifier>`.
C16_AliasOnce ==
    /\ [][(stack # <<>> /\ stack' # <<>>
             /\ stack'[1].node # stack[1].node) =>
              ~("alias" \in DOMAIN stack[1].node)]_vars
    /\ [](pc = "done" /\ Len(tokens) >= 3 => tree.alias = tokens[3].value)

\* a AS b AS c was parsed to the column a with alias c
C16_Witness ==
    /\ pc = "done"
    /\ [i \in 1..Len(tokens) |-> tokens[i].value] = <<"a", "AS", "b", "AS", "c">>
    /\ tree.value = "a"
    /\ tree.alias = "c"

----------------------------------------------------------------------------
\* C17: where a token starts with a digit run followed by `.` and another
\* digit run, the token is one FLOAT over both runs, its value the float
\* (never INTEGER, DOT, INTEGER, never an ID); where it starts with a bare
\* digit run, it is one INTEGER over the run; and no ID token is purely
\* numeric.

DecimalDigits == {"0", "1"}

\* the length of the longest run of digits of the text from i
DigitRun(i) ==
    CHOOSE n \in 0..(Len(input) + 1 - i) :
        /\ \A k \in i..(i + n - 1) : input[k] \in DecimalDigits
        /\ (i + n <= Len(input) => input[i + n] \notin DecimalDigits)

\* the text continues at i with `.` and a digit
FractionAt(i) ==
    /\ i + 1 <= Len(input)
    /\ input[i] = "."
    /\ input[i + 1] \in DecimalDigits

\* the digit run that ends before i is bare: no letter, `_` or `$` follows it
BareBefore(i) == i <= Len(input) => input[i] \in {".", " "}

C17_NumericLiterals ==
    /\ Tokenizing => (input[lexpos] \in IgnoreChars \/ Matched(lexpos) # "none")
    /\ \A k \in 1..Len(tokens) :
          LET t == tokens[k]
              whole == DigitRun(t.index)
              after == t.index + whole
          IN  /\ (whole > 0 /\ FractionAt(after)) =>
                    /\ t.type = "FLOAT"
                    /\ t.end = after + 1 + DigitRun(after + 1)
                    /\ t.value.whole = IntValue(SubSeq(input, t.index, after - 1))
              /\ (whole > 0 /\ ~FractionAt(after) /\ BareBefore(after)) =>
                    /\ t.type = "INTEGER"
                    /\ t.end = after
                    /\ t.value = IntValue(SubSeq(input, t.index, after - 1))
              /\ t.type = "ID" =>
                    \E j \in t.index..(t.end - 1) : input[j] \notin DecimalDigits

\* 1.01 was tokenized as one FLOAT
C17_Witness ==
    /\ pc = "done"
    /\ input = <<"1", ".", "0", "1">>
    /\ Len(tokens) = 1
    /\ tokens[1].type = "FLOAT"
    /\ tokens[1].value = [whole |-> 1, fraction |-> <<"0", "1">>]

----------------------------------------------------------------------------
\* C18: text that is exactly a reserved word in any letter case, with a word
\* boundary on both sides, is emitted as that keyword's token and not as an
\* ID; text that contains a reserved word inside a longer bare identifier
\* run (letters, digits, `_`, `$`) is emitted as a single ID token with its
\* original case preserved.

BareChars == {"o", "n", "N", "x", "_", "$", "0", "1"}

\* the reserved word ON, in any letter case, is written at i
ReservedAt(i) ==
    /\ i + 1 <= Len(input)
    /\ input[i] = "o"
    /\ input[i + 1] \in {"n", "N"}

\* the characters from i up to j - 1 are a whole bare identifier run
BareRun(i, j) ==
    /\ i < j
    /\ \A k \in i..(j - 1) : input[k] \in BareChars
    /\ (i > 1 => input[i - 1] \notin BareChars)
    /\ (j <= Len(input) => input[j] \notin BareChars)

KeywordEmitted ==
    \A k \in 1..Len(tokens) :
        LET t == tokens[k]
        IN  (/\ ReservedAt(t.index)
             /\ WordBoundary(t.index)
             /\ WordBoundary(t.index + 2)) =>
                (t.type = "ON" /\ t.end = t.index + 2)

LongerRunIsOneID ==
    pc = "done" =>
        \A i \in 1..Len(input) : \A j \in (i + 3)..(Len(input) + 1) :
            (BareRun(i, j) /\ \E k \in i..(j - 2) : ReservedAt(k)) =>
                \E n \in 1..Len(tokens) :
                    /\ tokens[n].type = "ID"
                    /\ tokens[n].index <= i
                    /\ tokens[n].end >= j
                    /\ tokens[n].value =
                           SubSeq(input, tokens[n].index, tokens[n].end - 1)

C18_KeywordPriority == KeywordEmitted /\ LongerRunIsOneID

\* on$x, one bare identifier run, was tokenized as the keyword ON and the
\* identifier $x
C18_Witness ==
    /\ pc = "done"
    /\ input = <<"o", "n", "$", "x">>
    /\ Len(tokens) = 2
    /\ tokens[1].type = "ON"
    /\ tokens[1].value = <<"o", "n">>
    /\ tokens[2].type = "ID"
    /\ tokens[2].value = <<"$", "x">>

----------------------------------------------------------------------------
\* C19: prerequisite closure of the accumulating Select: in every state
\* reached from a fresh Select by clause attachments that each passed
\* ensure_select_keyword_order, where set implies from_table set, group_by
\* set implies from_table set, order_by set implies from_table set, and
\* having set implies group_by set, hence from_table set.

\* the clauses attached so far
Attached == {clauses[i] : i \in 1..(pos - 1)}

C19_PrerequisiteClosure ==
    /\ \A c \in Clauses : IsSet(select, c) <=> c \in Attached
    /\ select.where # None => select.from_table # None
    /\ select.group_by # None => select.from_table # None
    /\ select.order_by # None => select.from_table # None
    /\ select.having # None => (select.group_by # None /\ select.from_table # None)

\* FROM, WHERE, GROUP BY, HAVING and ORDER BY were all attached
C19_Witness ==
    /\ pc = "parsing"
    /\ select.where # None
    /\ select.having # None
    /\ select.order_by # None
    /\ select.group_by # None
    /\ select.from_table # None

----------------------------------------------------------------------------
\* C20: the clause-order check rejects nothing it should accept: along every
\* sequence of distinct clauses that is strictly increasing in the canonical
\* order and in which the prerequisite of each clause appears earlier,
\* ensure_select_keyword_order passes at every step, so the only errors of
\* such a statement are about an operand, and with accepted operands it is
\* parsed to the end. LIMIT alone, OFFSET alone and FROM followed directly by
\* OFFSET are such sequences.

\* the clause c cannot be attached before these are
Prerequisites(c) ==
    CASE c \in {"WHERE", "GROUP BY", "ORDER BY"} -> {"FROM"}
      [] c = "HAVING" -> {"GROUP BY"}
      [] OTHER -> {}

\* the first n clauses of the statement are strictly increasing in canonical
\* order and each one's prerequisite is among those before it
WellOrdered(n) ==
    \A i \in 1..n :
        /\ \A j \in 1..(i - 1) : CanonicalPos(clauses[j]) < CanonicalPos(clauses[i])
        /\ Prerequisites(clauses[i]) \subseteq {clauses[j] : j \in 1..(i - 1)}

C20_AcceptsOrdered ==
    /\ (pc = "parsing" /\ pos <= Len(clauses) /\ WellOrdered(pos)) =>
            ensure_select_keyword_order(select, clauses[pos]) = NoErr
    /\ (pc = "error" /\ WellOrdered(pos)) =>
            /\ err.text \notin {"Duplicate", "requires", "must go after"}
            /\ ~AcceptedOperand(clauses[pos], operand)
    /\ (pc = "parsing" /\ WellOrdered(Len(clauses))) => ENABLED Next

\* FROM, GROUP BY, HAVING, LIMIT, OFFSET, with WHERE and ORDER BY left out,
\* was parsed to the end
C20_Witness ==
    /\ pc = "done"
    /\ clauses = <<"FROM", "GROUP BY", "HAVING", "LIMIT", "OFFSET">>
    /\ \A c \in Clauses : IsSet(result, c) <=> c \notin {"WHERE", "ORDER BY"}

----------------------------------------------------------------------------
\* C21: when attaching a clause breaks more than one rule of
\* ensure_select_keyword_order, the kind of the error follows the priority
\* duplicate > missing prerequisite > out of order (WHERE on a Select with
\* LIMIT set and no FROM reports "WHERE requires FROM", not "WHERE must go
\* after LIMIT"), and a "must go after" error names a clause strictly later
\* than the one being attached, never that clause itself.

\* the clause the call is about
Operation == clauses[1]

\* the rules the call breaks
RulesBroken ==
    (IF IsSet(select, Operation) THEN {"Duplicate"} ELSE {})
        \cup (IF PrerequisiteUnset(select, Operation) THEN {"requires"} ELSE {})
        \cup (IF LaterSet(select, Operation) # {} THEN {"must go after"} ELSE {})

C21_ErrorPriority ==
    pc # "parsing" =>
        /\ RulesBroken = {} <=> (pc = "done" /\ err = NoErr)
        /\ pc = "error" => err.clause = Operation
        /\ "Duplicate" \in RulesBroken => err.text = "Duplicate"
        /\ ("requires" \in RulesBroken /\ "Duplicate" \notin RulesBroken) =>
                err.text = "requires"
        /\ RulesBroken = {"must go after"} => err.text = "must go after"
        /\ err.text = "must go after" =>
                /\ err.arg # Operation
                /\ CanonicalPos(err.arg) > CanonicalPos(Operation)
                /\ IsSet(select, err.arg)

\* WHERE was attached to a Select with LIMIT set and no FROM: "WHERE requires FROM"
C21_Witness ==
    /\ pc = "error"
    /\ Operation = "WHERE"
    /\ select.limit # None
    /\ select.from_table = None
    /\ select.where = None
    /\ err = ParsingException("requires", "WHERE", "FROM", None)

====
